---- MODULE Spec2Model ----
(***************************************************************************)
(* Model of .ai/skills/fix-specs/scripts/fix_spec_conflicts.py: the batch  *)
(* process that detects documents SPEC-<token>-<tail>.md /                 *)
(* SPEC-ENT-<token>-<tail>.md sharing a token, renumbers the newest one of *)
(* each conflicting group and rewrites the references to it.               *)
(*                                                                         *)
(* Text is a sequence of atoms.  An atom is a one-character string (a      *)
(* digit, a letter, "-", " ") or a word the program never splits ("SPEC",  *)
(* "ENT", ".md", ".png").  File names, identifiers and file contents are   *)
(* such sequences, so str.replace, the file name grammar, int() and        *)
(* zfill() are computed on them as the code computes them on characters.   *)
(***************************************************************************)
EXTENDS Integers, Sequences, FiniteSets, TLC

\* ------------------------------------------------------------------------
\* Bounds of the model
\* ------------------------------------------------------------------------
MaxFiles == 4       \* documents in a generated registry
MaxTie == 3         \* documents in a generated single conflicting group
MaxRuns == 3        \* apply-mode invocations in one behaviour

\* ------------------------------------------------------------------------
\* Program constants
\* ------------------------------------------------------------------------
OSS_PREFIX == <<"SPEC">>
ENT_PREFIX == <<"SPEC", "-", "ENT">>
TEXT_EXTENSIONS == {".md", ".mdx", ".txt"}
SKIP_DIRS == {".git", "node_modules", ".next", "dist", "build", ".turbo", "coverage"}
DefaultWidth == 3
RootCandidates == << <<".ai", "specs">>, <<"ai", "specs">> >>

\* ------------------------------------------------------------------------
\* Characters and numbers
\* ------------------------------------------------------------------------
DigitSeq == <<"0", "1", "2", "3", "4", "5", "6", "7", "8", "9">>
Digits == {DigitSeq[i] : i \in 1..10}
Letters == {"a", "b", "c", "d", "e", "x", "SPEC", "ENT"}
AlNum == Digits \cup Letters

DigitVal(c) == (CHOOSE i \in 1..10 : DigitSeq[i] = c) - 1

\* code point order of the characters a token is made of
CharOrd(c) == IF c \in Digits THEN DigitVal(c)
              ELSE CHOOSE i \in 11..18 :
                     <<"ENT", "SPEC", "a", "b", "c", "d", "e", "x">>[i - 10] = c

\* str.isdigit()
IsDigit(s) == Len(s) > 0 /\ \A i \in 1..Len(s) : s[i] \in Digits

\* int(s) of a string of decimal digits
RECURSIVE ToInt(_)
ToInt(s) == IF Len(s) = 0 THEN 0
            ELSE 10 * ToInt(SubSeq(s, 1, Len(s) - 1)) + DigitVal(s[Len(s)])

\* str(n) of a non-negative integer
RECURSIVE ToStr(_)
ToStr(n) == IF n < 10 THEN <<DigitSeq[n + 1]>>
            ELSE ToStr(n \div 10) \o <<DigitSeq[(n % 10) + 1]>>

\* str.zfill(width)
RECURSIVE ZFill(_, _)
ZFill(s, w) == IF Len(s) >= w THEN s ELSE ZFill(<<"0">> \o s, w)

Max2(a, b) == IF a >= b THEN a ELSE b

\* s < t in Python's string order
RECURSIVE StrLess(_, _)
StrLess(s, t) ==
    IF Len(t) = 0 THEN FALSE
    ELSE IF Len(s) = 0 THEN TRUE
    ELSE IF s[1] = t[1] THEN StrLess(Tail(s), Tail(t))
    ELSE CharOrd(s[1]) < CharOrd(t[1])

\* str.replace(old, new): leftmost non-overlapping occurrences
RECURSIVE Replace(_, _, _)
Replace(s, old, new) ==
    IF Len(s) < Len(old) THEN s
    ELSE IF SubSeq(s, 1, Len(old)) = old
         THEN new \o Replace(SubSeq(s, Len(old) + 1, Len(s)), old, new)
         ELSE <<s[1]>> \o Replace(Tail(s), old, new)

\* number of positions of s at which pat occurs
Occurrences(s, pat) ==
    Cardinality({i \in 1..(Len(s) - Len(pat) + 1) : SubSeq(s, i, i + Len(pat) - 1) = pat})

\* ------------------------------------------------------------------------
\* Dates (datetime.date): <<year, month, day>>
\* ------------------------------------------------------------------------
IsLeap(y) == (y % 4 = 0) /\ ((y % 100 # 0) \/ (y % 400 = 0))

DaysInMonth(y, m) ==
    IF m = 2 THEN (IF IsLeap(y) THEN 29 ELSE 28)
    ELSE IF m \in {4, 6, 9, 11} THEN 30 ELSE 31

\* date(y, m, d) does not raise ValueError
ValidDate(y, m, d) ==
    /\ y >= 1 /\ y <= 9999
    /\ m >= 1 /\ m <= 12
    /\ d >= 1 /\ d <= DaysInMonth(y, m)

DateMin == <<1, 1, 1>>
NoDate == [ok |-> FALSE, d |-> DateMin]

DateLess(a, b) ==
    \/ a[1] < b[1]
    \/ a[1] = b[1] /\ a[2] < b[2]
    \/ a[1] = b[1] /\ a[2] = b[2] /\ a[3] < b[3]

\* ------------------------------------------------------------------------
\* SpecFile and the file name grammar
\* ------------------------------------------------------------------------
\* A path is <<directory, base name>>; a directory is the sequence of its
\* components below the repository root.
PathDir(p) == p[1]
PathName(p) == p[2]

\* a variant that keeps the old name
WithName_kept(p, name) == p

\* Path.with_name
WithName(p, name) == <<p[1], name>>

\* Path.suffix: the last atom of the base name when it is an extension
Suffix(name) == IF Len(name) > 1 THEN name[Len(name)] ELSE ""

\* Path.parent.name
ParentName(p) == IF Len(p[1]) = 0 THEN "" ELSE p[1][Len(p[1])]

IsPrefixOf(a, b) == Len(a) <= Len(b) /\ SubSeq(b, 1, Len(a)) = a

\* position of the first "-" of name at or after position from (0 if none)
RECURSIVE FirstDash(_, _)
FirstDash(name, from) ==
    IF from > Len(name) THEN 0
    ELSE IF name[from] = "-" THEN from
    ELSE FirstDash(name, from + 1)

\* ([0-9]+[A-Za-z0-9]*)-(.+)\.md$ matched from position from
RestMatches(name, from) ==
    LET dash == FirstDash(name, from) IN
    /\ dash > from
    /\ name[from] \in Digits
    /\ \A k \in from..(dash - 1) : name[k] \in AlNum
    /\ dash + 1 <= Len(name) - 1
    /\ name[Len(name)] = ".md"

NoMatch == [ok |-> FALSE, prefix |-> <<>>, token |-> <<>>, tail |-> <<>>]

Groups(name, prefix, from) ==
    LET dash == FirstDash(name, from) IN
    [ok |-> TRUE, prefix |-> prefix,
     token |-> SubSeq(name, from, dash - 1),
     tail |-> SubSeq(name, dash + 1, Len(name) - 1)]

\* name_pattern.match: ^(SPEC(?:-ENT)?)-([0-9]+[A-Za-z0-9]*)-(.+)\.md$
NameMatch(name) ==
    IF Len(name) >= 2 /\ name[1] = "SPEC" /\ name[2] = "-"
    THEN IF Len(name) >= 4 /\ name[3] = "ENT" /\ name[4] = "-" /\ RestMatches(name, 5)
         THEN Groups(name, ENT_PREFIX, 5)
         ELSE IF RestMatches(name, 3)
              THEN Groups(name, OSS_PREFIX, 3)
              ELSE NoMatch
    ELSE NoMatch

\* f"{prefix}-{token}-{tail}.md"
FileName(prefix, token, tail) == prefix \o <<"-">> \o token \o <<"-">> \o tail \o <<".md">>

\* SpecFile.base_name
base_name(spec) == PathName(spec.path)

\* SpecFile.spec_id
SpecId(prefix, token) == prefix \o <<"-">> \o token
spec_id(spec) == SpecId(spec.prefix, spec.token)

\* re.match(r"^(\d{4})-(\d{2})-(\d{2})-", tail) matches
DateFragment(t) ==
    /\ Len(t) >= 11
    /\ \A i \in {1, 2, 3, 4, 6, 7, 9, 10} : t[i] \in Digits
    /\ \A i \in {5, 8, 11} : t[i] = "-"

\* SpecFile.dated_key
dated_key(spec) ==
    LET t == spec.tail IN
    IF DateFragment(t)
    THEN LET y == ToInt(SubSeq(t, 1, 4))
             m == ToInt(SubSeq(t, 6, 7))
             d == ToInt(SubSeq(t, 9, 10))
         IN  IF ValidDate(y, m, d) THEN [ok |-> TRUE, d |-> <<y, m, d>>] ELSE NoDate
    ELSE NoDate

\* a variant of the key that orders by modification time alone
SortKey_recency(spec) == <<FALSE, DateMin, spec.mtime>>

\* a variant of the key that notes the presence of a date but not its value
SortKey_presence(spec) == <<dated_key(spec).ok, DateMin, spec.mtime>>

\* the key of max() in resolve_conflicts_for_prefix:
\* (dated_key is not None, dated_key or date.min, mtime)
SortKey(spec) ==
    LET k == dated_key(spec) IN
    <<k.ok, IF k.ok THEN k.d ELSE DateMin, spec.mtime>>

\* a < b for two such keys (Python tuple comparison, False < True)
KeyLess(a, b) ==
    \/ ~a[1] /\ b[1]
    \/ a[1] = b[1] /\ DateLess(a[2], b[2])
    \/ a[1] = b[1] /\ a[2] = b[2] /\ a[3] < b[3]

\* max(dupes, key=...): the first item of the list whose key is largest.
\* specs is the record list, dupes a list of positions in it.
RECURSIVE MaxFrom(_, _, _, _)
MaxFrom(specs, dupes, i, best) ==
    IF i > Len(dupes) THEN best
    ELSE IF KeyLess(SortKey(specs[best]), SortKey(specs[dupes[i]]))
         THEN MaxFrom(specs, dupes, i + 1, dupes[i])
         ELSE MaxFrom(specs, dupes, i + 1, best)

Newest(specs, dupes) == MaxFrom(specs, dupes, 2, dupes[1])

\* next_numeric_token(specs, min_width); scoped lists the positions of the
\* family's records in specs
RECURSIVE MaxNumber(_, _, _, _)
MaxNumber(specs, scoped, i, max_number) ==
    IF i > Len(scoped) THEN max_number
    ELSE IF IsDigit(specs[scoped[i]].token)
         THEN MaxNumber(specs, scoped, i + 1, Max2(max_number, ToInt(specs[scoped[i]].token)))
         ELSE MaxNumber(specs, scoped, i + 1, max_number)

\* a variant that numbers by the count of records instead of the largest token
next_numeric_token_count(specs, scoped, min_width) ==
    LET next_number == Len(scoped) + 1
        width == Max2(min_width, Len(ToStr(next_number)))
    IN  ZFill(ToStr(next_number), width)

\* a variant that forgets the "+ 1"
next_numeric_token_same(specs, scoped, min_width) ==
    LET next_number == Max2(MaxNumber(specs, scoped, 1, 0), 1)
        width == Max2(min_width, Len(ToStr(next_number)))
    IN  ZFill(ToStr(next_number), width)

\* a variant that looks at the records of both families
next_numeric_token_all(specs, scoped, min_width) ==
    LET next_number == MaxNumber(specs, [i \in 1..Len(specs) |-> i], 1, 0) + 1
        width == Max2(min_width, Len(ToStr(next_number)))
    IN  ZFill(ToStr(next_number), width)

next_numeric_token(specs, scoped, min_width) ==
    LET next_number == MaxNumber(specs, scoped, 1, 0) + 1
        width == Max2(min_width, Len(ToStr(next_number)))
    IN  ZFill(ToStr(next_number), width)

\* ------------------------------------------------------------------------
\* The file system
\* ------------------------------------------------------------------------
\* A file system maps the path of every regular file to
\*   content : its text,     utf8 : whether read_text can decode it,
\*   mtime   : st_mtime,     ino  : its position in directory enumeration.

\* the files os.walk visits: no directory named in SKIP_DIRS on the way
Walked(fs) == {p \in DOMAIN fs : \A i \in 1..Len(PathDir(p)) : PathDir(p)[i] \notin SKIP_DIRS}

\* the files replace_in_text_files reads: allowed suffix and decodable
TextFiles(fs) == {p \in Walked(fs) : Suffix(PathName(p)) \in TEXT_EXTENSIONS /\ fs[p].utf8}

\* the time a write happens at: later than every st_mtime on disk
Now(fs) ==
    LET times == {fs[p].mtime : p \in DOMAIN fs} IN
    IF times = {} THEN 1 ELSE 1 + (CHOOSE t \in times : \A u \in times : u <= t)

\* the files of replace_in_text_files whose text changes
Changed(fs, old_base_name, new_base_name) ==
    {p \in TextFiles(fs) : Replace(fs[p].content, old_base_name, new_base_name) # fs[p].content}

\* replace_in_text_files: the number of changed files and the file system
\* it leaves
replace_in_text_files(fs, old_base_name, new_base_name, dry) ==
    LET hit == Changed(fs, old_base_name, new_base_name) IN
    [changed |-> Cardinality(hit),
     fs |-> IF dry THEN fs
            ELSE [p \in DOMAIN fs |->
                    IF p \in hit
                    THEN [fs[p] EXCEPT !.content = Replace(@, old_base_name, new_base_name),
                                       !.mtime = Now(fs)]
                    ELSE fs[p]]]

\* a variant that rewrites the identifier in every text file
replace_in_file_everywhere(fs, path, old, new, dry) ==
    LET updated == Replace(fs[path].content, old, new) IN
    [changed |-> updated # fs[path].content,
     fs |-> IF dry THEN fs
            ELSE [p \in DOMAIN fs |->
                    IF p \in TextFiles(fs) /\ Replace(fs[p].content, old, new) # fs[p].content
                    THEN [fs[p] EXCEPT !.content = Replace(@, old, new), !.mtime = Now(fs)]
                    ELSE fs[p]]]

\* a variant that writes also in a dry run
replace_in_file_always(fs, path, old, new, dry) ==
    LET updated == Replace(fs[path].content, old, new) IN
    [changed |-> updated # fs[path].content,
     fs |-> IF updated = fs[path].content THEN fs
            ELSE [fs EXCEPT ![path] = [@ EXCEPT !.content = updated, !.mtime = Now(fs)]]]

\* a variant that reports the change and never writes it
replace_in_file_never(fs, path, old, new, dry) ==
    LET updated == Replace(fs[path].content, old, new) IN
    [changed |-> updated # fs[path].content, fs |-> fs]

\* replace_in_file: whether the text changes and the file system it leaves
replace_in_file(fs, path, old, new, dry) ==
    LET updated == Replace(fs[path].content, old, new) IN
    [changed |-> updated # fs[path].content,
     fs |-> IF dry \/ updated = fs[path].content THEN fs
            ELSE [fs EXCEPT ![path] = [@ EXCEPT !.content = updated, !.mtime = Now(fs)]]]

\* Path.rename: the file moves to new_path, replacing what was there
Rename(fs, path, new_path) ==
    [p \in (DOMAIN fs \ {path}) \cup {new_path} |-> IF p = new_path THEN fs[path] ELSE fs[p]]

\* a variant that looks at the first candidate only
find_specs_root_first(present) ==
    IF RootCandidates[1] \in present THEN <<RootCandidates[1]>> ELSE <<>>

\* find_specs_root: the candidates that exist, in candidate order
find_specs_root(present) == SelectSeq(RootCandidates, LAMBDA r : r \in present)

\* sort a set of files by directory position, forward or backward
RECURSIVE ByIno(_, _, _)
ByIno(fs, files, backward) ==
    IF files = {} THEN <<>>
    ELSE LET p == CHOOSE q \in files :
                    \A r \in files : IF backward THEN fs[r].ino <= fs[q].ino
                                                 ELSE fs[q].ino <= fs[r].ino
         IN  <<p>> \o ByIno(fs, files \ {p}, backward)

\* the files iter_spec_files yields records for
Matched(fs, specs_root) ==
    {p \in DOMAIN fs : /\ IsPrefixOf(specs_root, PathDir(p))
                        /\ Suffix(PathName(p)) = ".md"
                        /\ ParentName(p) # "analysis"
                        /\ NameMatch(PathName(p)).ok}

MakeSpecFile(fs, p) ==
    LET m == NameMatch(PathName(p)) IN
    [path |-> p, prefix |-> m.prefix, token |-> m.token, tail |-> m.tail, mtime |-> fs[p].mtime]

\* list(iter_spec_files(specs_root)), rglob enumerating forward or backward
iter_spec_files(fs, specs_root, backward) ==
    LET order == ByIno(fs, Matched(fs, specs_root), backward) IN
    [i \in 1..Len(order) |-> MakeSpecFile(fs, order[i])]

\* ------------------------------------------------------------------------
\* Grouping (resolve_conflicts_for_prefix, before the loop)
\* ------------------------------------------------------------------------
\* scoped = [s for s in specs if s.prefix == prefix], as positions in specs
RECURSIVE ScopedFrom(_, _, _)
ScopedFrom(list, prefix, i) ==
    IF i > Len(list) THEN <<>>
    ELSE (IF list[i].prefix = prefix THEN <<i>> ELSE <<>>) \o ScopedFrom(list, prefix, i + 1)

\* a variant without the filter on the prefix
Scoped_all(list, prefix) == [i \in 1..Len(list) |-> i]

Scoped(list, prefix) == ScopedFrom(list, prefix, 1)

\* a variant that puts every record of the family into every group
GroupsOf_everyone(list, sc) ==
    [t \in {list[sc[i]].token : i \in 1..Len(sc)} |-> sc]

\* groups.setdefault(spec.token, []).append(spec)
GroupsOf(list, sc) ==
    [t \in {list[sc[i]].token : i \in 1..Len(sc)} |->
        SelectSeq(sc, LAMBDA j : list[j].token = t)]

\* a variant that always takes the default width
WidthOf_default(list, sc) == DefaultWidth

\* width = max((len(s.token) for s in scoped if s.token.isdigit()), default=3)
WidthOf(list, sc) ==
    LET lens == {Len(list[sc[i]].token) : i \in {j \in 1..Len(sc) : IsDigit(list[sc[j]].token)}} IN
    IF lens = {} THEN DefaultWidth ELSE CHOOSE w \in lens : \A v \in lens : v <= w

\* a variant that visits the keys in descending order
RECURSIVE SortedTokens_desc(_)
SortedTokens_desc(toks) ==
    IF toks = {} THEN <<>>
    ELSE LET t == CHOOSE u \in toks : \A v \in toks \ {u} : StrLess(v, u)
         IN  <<t>> \o SortedTokens_desc(toks \ {t})

\* the keys of sorted(groups.items())
RECURSIVE SortedTokens(_)
SortedTokens(toks) ==
    IF toks = {} THEN <<>>
    ELSE LET t == CHOOSE u \in toks : \A v \in toks \ {u} : StrLess(u, v)
         IN  <<t>> \o SortedTokens(toks \ {t})

\* the loop of resolve_conflicts_for_prefix (lines 133-170) as it acts on the
\* record list: each group of two or more has its newest record given the
\* next token and the path built from it
RECURSIVE ResolveGroups(_, _, _, _, _)
ResolveGroups(list, sc, gr, w, keys) ==
    IF keys = <<>> THEN list
    ELSE IF Len(gr[Head(keys)]) < 2 THEN ResolveGroups(list, sc, gr, w, Tail(keys))
    ELSE LET newest == Newest(list, gr[Head(keys)])
             new_token == next_numeric_token(list, sc, w)
             new_path == WithName(list[newest].path,
                                  FileName(list[newest].prefix, new_token, list[newest].tail))
         IN  ResolveGroups([list EXCEPT ![newest] = [@ EXCEPT !.token = new_token,
                                                              !.path = new_path]],
                           sc, gr, w, Tail(keys))

\* resolve_conflicts_for_prefix(repo_root, specs, prefix, dry_run) as it
\* leaves the record list
resolve_conflicts_for_prefix(list, pfx) ==
    LET sc == Scoped(list, pfx)
        gr == GroupsOf(list, sc)
    IN  ResolveGroups(list, sc, gr, WidthOf(list, sc), SortedTokens(DOMAIN gr))

\* ------------------------------------------------------------------------
\* State
\* ------------------------------------------------------------------------
VARIABLES
    disk,             \* the repository's files
    present,          \* the registry root directories that exist
    pc,               \* where main() is: "idle", "scan", "begin", "loop", "done", "crashed"
    dry_run,          \* main: not args.apply
    backward,         \* the direction rglob enumerates in during this run
    specs_roots,      \* main: the roots not yet processed, current one first
    specs,            \* main: list(iter_spec_files(specs_root)), records mutated in place
    prefix,           \* resolve_conflicts_for_prefix: the family being resolved
    scoped,           \* resolve_conflicts_for_prefix: positions in specs
    groups,           \* resolve_conflicts_for_prefix: token -> positions in specs
    width,            \* resolve_conflicts_for_prefix
    todo,             \* the keys of sorted(groups.items()) not yet visited
    conflict_count,   \* resolve_conflicts_for_prefix
    total_conflicts,  \* main
    out,              \* the lines printed by this run
    exit_code,        \* the status of the last finished run (-1: none)
    disk0,            \* history: the files when this run started
    log,              \* history: the conflicts resolved by this run
    prev,             \* history: the run before this one, when it was a completed preview
    applied,          \* history: the number of apply runs started
    scanned,          \* history: specs as the scan of the current root returned it
    first,            \* history: the files at the very beginning
    failed            \* history: the resolution this run was aborted in, if any

vars == <<disk, present, pc, dry_run, backward, specs_roots, specs, prefix, scoped,
          groups, width, todo, conflict_count, total_conflicts, out, exit_code,
          disk0, log, prev, applied, scanned, first, failed>>

runVars == <<dry_run, backward>>
familyVars == <<prefix, scoped, groups, width, todo, conflict_count>>
histVars == <<disk0, log, prev, applied, scanned, first, failed>>

\* a printed line: its format and the values interpolated into it
Line(kind, s1, s2, s3, n) == [kind |-> kind, s1 |-> s1, s2 |-> s2, s3 |-> s3, n |-> n]

NoRun == [valid |-> FALSE, backward |-> FALSE, disk0 |-> <<>>, out |-> <<>>]

NoFailure == [valid |-> FALSE]

\* ------------------------------------------------------------------------
\* main(), lines 175-198: parse the arguments, find the roots
\* ------------------------------------------------------------------------
\* (a behaviour ends with the run that is aborted: no invocation follows it)
Main(apply, back) ==
    /\ pc \in {"idle", "done"}
    /\ apply => applied < MaxRuns
    /\ dry_run' = ~apply
    /\ backward' = back
    /\ prev' = IF pc = "done" /\ dry_run
               THEN [valid |-> TRUE, backward |-> backward, disk0 |-> disk0, out |-> out]
               ELSE NoRun
    /\ applied' = IF apply THEN applied + 1 ELSE applied
    /\ disk0' = disk
    /\ log' = <<>>
    /\ specs_roots' = find_specs_root(present)
    /\ specs' = <<>>
    /\ scanned' = <<>>
    /\ failed' = NoFailure
    /\ total_conflicts' = 0
    /\ IF find_specs_root(present) = <<>>
       THEN /\ out' = <<Line("noroots", <<>>, <<>>, <<>>, 0)>>
            /\ exit_code' = 1
            /\ pc' = "done"
       ELSE /\ out' = <<>>
            /\ exit_code' = -1
            /\ pc' = "scan"
    /\ prefix' = OSS_PREFIX /\ scoped' = <<>> /\ groups' = <<>> /\ width' = DefaultWidth
    /\ todo' = <<>> /\ conflict_count' = 0
    /\ UNCHANGED <<disk, present, first>>

\* main(), lines 199-205: scan the next root
ScanRoot ==
    /\ pc = "scan"
    /\ specs_roots # <<>>
    /\ LET found == iter_spec_files(disk, Head(specs_roots), backward) IN
       /\ specs' = found
       /\ scanned' = found
       /\ IF found = <<>>
          THEN /\ out' = Append(out, Line("nospecs", Head(specs_roots), <<>>, <<>>, 0))
               /\ specs_roots' = Tail(specs_roots)
               /\ pc' = "scan"
          ELSE /\ out' = Append(out, Line("scanning", Head(specs_roots), <<>>, <<>>, 0))
               /\ specs_roots' = specs_roots
               /\ pc' = "begin"
    /\ prefix' = OSS_PREFIX
    /\ UNCHANGED <<disk, present, runVars, scoped, groups, width, todo, conflict_count,
                   total_conflicts, exit_code, disk0, log, prev, applied, first, failed>>

\* resolve_conflicts_for_prefix, lines 125-131: filter, group, width
BeginFamily ==
    /\ pc = "begin"
    /\ LET sc == Scoped(specs, prefix)
           gr == GroupsOf(specs, sc)
       IN  /\ scoped' = sc
           /\ groups' = gr
           /\ width' = WidthOf(specs, sc)
           /\ todo' = SortedTokens(DOMAIN gr)
    /\ conflict_count' = 0
    /\ pc' = "loop"
    /\ UNCHANGED <<disk, present, runVars, specs_roots, specs, prefix, total_conflicts,
                   out, exit_code, histVars>>

\* resolve_conflicts_for_prefix, lines 133-135: a group of one is passed over
SkipGroup ==
    /\ pc = "loop"
    /\ todo # <<>>
    /\ Len(groups[Head(todo)]) < 2
    /\ todo' = Tail(todo)
    /\ UNCHANGED <<disk, present, pc, runVars, specs_roots, specs, prefix, scoped, groups,
                   width, conflict_count, total_conflicts, out, exit_code, histVars>>

\* resolve_conflicts_for_prefix, lines 137-170: one conflicting group;
\* rename_ok tells whether the file system lets Path.rename (line 167) succeed
ResolveConflict(rename_ok) ==
    /\ pc = "loop"
    /\ todo # <<>>
    /\ Len(groups[Head(todo)]) >= 2
    /\ LET token == Head(todo)
           dupes == groups[token]
           newest == Newest(specs, dupes)
           rec == specs[newest]
           new_token == next_numeric_token(specs, scoped, width)
           new_file_name == FileName(rec.prefix, new_token, rec.tail)
           new_path == WithName(rec.path, new_file_name)
           refs == replace_in_text_files(disk, base_name(rec), new_file_name, dry_run)
           old_spec_id == spec_id(rec)
           new_spec_id == SpecId(rec.prefix, new_token)
           readable == rec.path \in DOMAIN refs.fs /\ refs.fs[rec.path].utf8
           ident == replace_in_file(refs.fs, rec.path, old_spec_id, new_spec_id, dry_run)
           lines == <<Line("conflict", SpecId(prefix, token), base_name(rec), new_file_name, 0),
                      Line("refs", <<>>, <<>>, <<>>, refs.changed)>>
       IN  IF ~readable
           THEN \* read_text raises: the run ends with a traceback
                /\ disk' = refs.fs
                /\ out' = out \o lines
                /\ exit_code' = 1
                /\ pc' = "crashed"
                /\ UNCHANGED <<specs, todo, conflict_count, log, failed>>
           ELSE IF ~dry_run /\ ~rename_ok
           THEN \* rename raises OSError after both writes: the run ends with a traceback
                /\ disk' = ident.fs
                /\ out' = out \o lines \o
                          (IF ident.changed
                           THEN <<Line("id", old_spec_id, new_spec_id, <<>>, 0)>>
                           ELSE <<>>)
                /\ exit_code' = 1
                /\ pc' = "crashed"
                /\ failed' = [valid |-> TRUE, token |-> token, old |-> rec,
                              new_token |-> new_token, new_path |-> new_path,
                              before |-> disk, specs |-> specs, todo |-> todo]
                /\ UNCHANGED <<specs, todo, conflict_count, log>>
           ELSE /\ disk' = IF dry_run THEN ident.fs ELSE Rename(ident.fs, rec.path, new_path)
                /\ out' = out \o lines \o
                          (IF ident.changed
                           THEN <<Line("id", old_spec_id, new_spec_id, <<>>, 0)>>
                           ELSE <<>>)
                /\ specs' = [specs EXCEPT ![newest] = [@ EXCEPT !.token = new_token,
                                                                !.path = new_path]]
                /\ todo' = Tail(todo)
                /\ conflict_count' = conflict_count + 1
                /\ log' = Append(log, [root |-> Head(specs_roots), prefix |-> prefix,
                                       token |-> token, dupes |-> dupes, newest |-> newest,
                                       old |-> rec, new_token |-> new_token,
                                       new_path |-> new_path,
                                       before |-> disk, after |-> disk', specs |-> specs,
                                       specs_after |-> specs',
                                       refs |-> refs.changed, id |-> ident.changed])
                /\ UNCHANGED <<pc, exit_code, failed>>
    /\ UNCHANGED <<present, runVars, specs_roots, prefix, scoped, groups, width,
                   total_conflicts, disk0, prev, applied, scanned, first>>

\* resolve_conflicts_for_prefix returns (line 172); main adds the count and
\* goes on with the other family or the next root (lines 206-217)
EndFamily ==
    /\ pc = "loop"
    /\ todo = <<>>
    /\ total_conflicts' = total_conflicts + conflict_count
    /\ IF prefix = OSS_PREFIX
       THEN /\ prefix' = ENT_PREFIX
            /\ pc' = "begin"
            /\ specs_roots' = specs_roots
       ELSE /\ prefix' = OSS_PREFIX
            /\ pc' = "scan"
            /\ specs_roots' = Tail(specs_roots)
    /\ UNCHANGED <<disk, present, runVars, specs, scoped, groups, width, todo,
                   conflict_count, out, exit_code, histVars>>

\* main(), lines 219-226: the summary line and the exit status
Summary ==
    /\ pc = "scan"
    /\ specs_roots = <<>>
    /\ out' = Append(out,
                IF total_conflicts = 0
                THEN Line("none", <<>>, <<>>, <<>>, 0)
                ELSE Line("resolved", IF dry_run THEN <<"dry-run">> ELSE <<"apply">>,
                          <<>>, <<>>, total_conflicts))
    /\ exit_code' = 0
    /\ pc' = "done"
    /\ UNCHANGED <<disk, present, runVars, specs_roots, specs, familyVars,
                   total_conflicts, histVars>>

\* ------------------------------------------------------------------------
\* Repositories the process starts from
\* ------------------------------------------------------------------------
DotAiSpecs == RootCandidates[1]
AiSpecs == RootCandidates[2]

SlugSeq == <<"a", "b", "c", "d", "e">>
Slug(i) == <<SlugSeq[i]>>

T003 == <<"0", "0", "3">>
T004 == <<"0", "0", "4">>
T9 == <<"9">>
T3a == <<"3", "a">>

\* prefix and token of a generated document
KindSeq == << [prefix |-> OSS_PREFIX, token |-> T003], [prefix |-> OSS_PREFIX, token |-> T004],
              [prefix |-> OSS_PREFIX, token |-> T9],   [prefix |-> OSS_PREFIX, token |-> T3a],
              [prefix |-> ENT_PREFIX, token |-> T003] >>

\* leading fragment of a tail: none, two valid dates, one that is no date
DateSeq == << <<>>,
              <<"2", "0", "2", "4", "-", "0", "1", "-", "0", "5", "-">>,
              <<"2", "0", "2", "4", "-", "0", "2", "-", "2", "9", "-">>,
              <<"2", "0", "2", "3", "-", "0", "2", "-", "2", "9", "-">> >>

\* date fragment and modification time of a generated document
AgeSeq == << [date |-> 1, mtime |-> 1], [date |-> 1, mtime |-> 2],
             [date |-> 2, mtime |-> 1], [date |-> 2, mtime |-> 2],
             [date |-> 3, mtime |-> 1], [date |-> 4, mtime |-> 1] >>

NonDecreasing(f, n) == \A i \in 1..(n - 1) : f[i] <= f[i + 1]

File(content, mtime, ino, utf8) == [content |-> content, mtime |-> mtime, ino |-> ino, utf8 |-> utf8]

\* the text a document starts with: its identifier, then words
Header(prefix_, token) == SpecId(prefix_, token) \o <<" ", "x">>

\* a registry of n documents with the given prefixes and tokens
NumberedRepo(n, kind) ==
    LET name(i) == FileName(KindSeq[kind[i]].prefix, KindSeq[kind[i]].token, Slug(i))
        slot(p) == CHOOSE i \in 1..n : p = <<DotAiSpecs, name(i)>>
    IN  [p \in {<<DotAiSpecs, name(i)>> : i \in 1..n} |->
            File(Header(KindSeq[kind[slot(p)]].prefix, KindSeq[kind[slot(p)]].token),
                 1, slot(p), TRUE)]

\* one group of n documents SPEC-003-* with the given dates and times
TieRepo(n, age) ==
    LET name(i) == FileName(OSS_PREFIX, T003, DateSeq[AgeSeq[age[i]].date] \o Slug(i))
        slot(p) == CHOOSE i \in 1..n : p = <<DotAiSpecs, name(i)>>
    IN  [p \in {<<DotAiSpecs, name(i)>> : i \in 1..n} |->
            File(Header(OSS_PREFIX, T003), AgeSeq[age[slot(p)]].mtime, slot(p), TRUE)]

\* two conflicting documents and a third file, with references in the texts
NameA == FileName(OSS_PREFIX, T003, Slug(1))
NameB == FileName(OSS_PREFIX, T003, Slug(2))
Id003 == SpecId(OSS_PREFIX, T003)

DocTexts == { <<"x">>,
              Header(OSS_PREFIX, T003),
              <<"x", " ">> \o NameA,
              <<"x", " ">> \o NameB,
              Id003 \o <<" ">> \o NameA \o <<" ">> \o NameB }

OtherTexts == { NameB \o <<" ">> \o Id003, NameA \o <<" ", "x">> }

OtherFiles == { [path |-> << <<>>, <<"README", ".md">> >>, utf8 |-> TRUE],
                [path |-> << <<"node_modules">>, <<"README", ".md">> >>, utf8 |-> TRUE],
                [path |-> << <<>>, <<"logo", ".png">> >>, utf8 |-> TRUE],
                [path |-> << <<>>, <<"README", ".md">> >>, utf8 |-> FALSE],
                [path |-> << DotAiSpecs \o <<"analysis">>, FileName(OSS_PREFIX, T003, Slug(3)) >>,
                 utf8 |-> TRUE] }

RefRepo(ta, tb, other, to) ==
    (<<DotAiSpecs, NameA>> :> File(ta, 1, 1, TRUE))
    @@ (<<DotAiSpecs, NameB>> :> File(tb, 2, 2, TRUE))
    @@ (other.path :> File(to, 1, 3, other.utf8))

\* registries under both candidate roots
RootDocs(root, pick, s) ==
    IF pick = 0 THEN <<>>
    ELSE (<<root, FileName(OSS_PREFIX, T003, Slug(s))>> :> File(Header(OSS_PREFIX, T003), 1, s, TRUE))
         @@ (<<root, FileName(OSS_PREFIX, IF pick = 1 THEN T003 ELSE T004, Slug(s + 1))>>
                :> File(Header(OSS_PREFIX, IF pick = 1 THEN T003 ELSE T004), 2, s + 1, TRUE))

Readme == << <<>>, <<"README", ".md">> >>

RootsRepo(roots, pa, pb) ==
    (Readme :> File(FileName(OSS_PREFIX, T003, Slug(4)) \o <<" ", "x">>, 1, 9, TRUE))
    @@ (IF DotAiSpecs \in roots THEN RootDocs(DotAiSpecs, pa, 1) ELSE <<>>)
    @@ (IF AiSpecs \in roots THEN RootDocs(AiSpecs, pb, 3) ELSE <<>>)

\* two conflicting documents and a third one with the tail of the newer of
\* them under another token, beside them or in a subdirectory
TwinRepo(token, sub) ==
    (<<DotAiSpecs, NameA>> :> File(Header(OSS_PREFIX, T003), 1, 1, TRUE))
    @@ (<<DotAiSpecs, NameB>> :> File(Header(OSS_PREFIX, T003), 2, 2, TRUE))
    @@ (<<DotAiSpecs \o sub, FileName(OSS_PREFIX, token, Slug(2))>>
           :> File(Header(OSS_PREFIX, token), 1, 3, TRUE))

InitDisk ==
    \/ \E n \in 1..MaxFiles : \E kind \in [1..n -> 1..Len(KindSeq)] :
          /\ NonDecreasing(kind, n)
          /\ disk = NumberedRepo(n, kind)
          /\ present = {DotAiSpecs}
    \/ \E n \in 2..MaxTie : \E age \in [1..n -> 1..Len(AgeSeq)] :
          /\ NonDecreasing(age, n)
          /\ disk = TieRepo(n, age)
          /\ present = {DotAiSpecs}
    \/ \E ta \in DocTexts, tb \in DocTexts, other \in OtherFiles, to \in OtherTexts :
          /\ disk = RefRepo(ta, tb, other, to)
          /\ present = {DotAiSpecs}
    \/ \E roots \in SUBSET {DotAiSpecs, AiSpecs} : \E pa \in 0..2, pb \in 0..2 :
          /\ disk = RootsRepo(roots, pa, pb)
          /\ present = roots
    \/ \E token \in {T004, T9, T3a}, sub \in {<<>>, <<"sub">>} :
          /\ disk = TwinRepo(token, sub)
          /\ present = {DotAiSpecs}

Init ==
    /\ InitDisk
    /\ pc = "idle"
    /\ dry_run = TRUE
    /\ backward = FALSE
    /\ specs_roots = <<>>
    /\ specs = <<>>
    /\ prefix = OSS_PREFIX
    /\ scoped = <<>>
    /\ groups = <<>>
    /\ width = DefaultWidth
    /\ todo = <<>>
    /\ conflict_count = 0
    /\ total_conflicts = 0
    /\ out = <<>>
    /\ exit_code = -1
    /\ disk0 = disk
    /\ log = <<>>
    /\ prev = NoRun
    /\ applied = 0
    /\ scanned = <<>>
    /\ first = disk
    /\ failed = NoFailure

Next ==
    \/ \E apply \in BOOLEAN, back \in BOOLEAN : Main(apply, back)
    \/ ScanRoot
    \/ BeginFamily
    \/ SkipGroup
    \/ ResolveConflict(TRUE)
    \/ EndFamily
    \/ Summary

Spec == Init /\ [][Next]_vars

\* the same process on a file system that may refuse a rename
NextFail ==
    \/ Next
    \/ ResolveConflict(FALSE)

SpecFail == Init /\ [][NextFail]_vars

\* ------------------------------------------------------------------------
\* Properties
\* ------------------------------------------------------------------------
Families == {OSS_PREFIX, ENT_PREFIX}
Roots == {RootCandidates[i] : i \in 1..Len(RootCandidates)}

\* the documents of one family under one root, as found on a file system
FamilyDocs(fs, root, pfx) == {p \in Matched(fs, root) : NameMatch(PathName(p)).prefix = pfx}
TokenOf(p) == NameMatch(PathName(p)).token
\* the token of each of these documents
FamilyTokenOf(fs, root, pfx) ==
    LET parsed == [p \in Matched(fs, root) |-> NameMatch(PathName(p))] IN
    [p \in {q \in DOMAIN parsed : parsed[q].prefix = pfx} |-> parsed[p].token]
FamilyTokens(fs, root, pfx) ==
    LET tok == FamilyTokenOf(fs, root, pfx) IN {tok[p] : p \in DOMAIN tok}
GroupSize(fs, root, pfx, t) ==
    LET tok == FamilyTokenOf(fs, root, pfx) IN Cardinality({p \in DOMAIN tok : tok[p] = t})
MaxGroup(fs, root, pfx) ==
    LET tok == FamilyTokenOf(fs, root, pfx)
        sizes == {Cardinality({q \in DOMAIN tok : tok[q] = tok[p]}) : p \in DOMAIN tok}
    IN  IF sizes = {} THEN 0 ELSE CHOOSE k \in sizes : \A j \in sizes : j <= k

\* the conflicts this run has resolved so far in one family of one root
Resolved(root, pfx) == {i \in 1..Len(log) : log[i].root = root /\ log[i].prefix = pfx}

C3_PreviewWritesNothing == dry_run => disk = disk0

\* a preview run has finished after processing two conflicts, one of which
\* reported an identifier rewrite
C3_Witness ==
    /\ dry_run /\ pc = "done" /\ Len(log) >= 2
    /\ \E i \in 1..Len(log) : log[i].id /\ log[i].refs > 0

AllButLast(lines) == SubSeq(lines, 1, Len(lines) - 1)

\* C2: a preview run and an apply run on the same repository snapshot
\* (enumerated in the same direction) print the same lines, one for one,
\* except for the final summary line.
C2_OutputParity ==
    (/\ pc = "done" /\ ~dry_run
     /\ prev.valid /\ prev.backward = backward /\ prev.disk0 = disk0)
    => AllButLast(out) = AllButLast(prev.out)

\* C4: with k the size of the largest group of a family at the beginning,
\* k - 1 completed apply runs leave no group of two or more members in it;
\* and a run that starts when the family has no such group resolves no
\* conflict of the family, counts none and leaves the family's documents
\* where they are.
C4_Convergence ==
    \A root \in present, pfx \in Families :
        /\ (pc \in {"idle", "done"} /\ MaxGroup(disk, root, pfx) > 1)
           => applied < MaxGroup(first, root, pfx) - 1
        /\ Resolved(root, pfx) # {} => MaxGroup(disk0, root, pfx) >= 2
        /\ (pc = "loop" /\ prefix = pfx /\ Head(specs_roots) = root /\ conflict_count > 0)
           => MaxGroup(disk0, root, pfx) >= 2
        /\ (pc = "done" /\ DOMAIN disk # DOMAIN disk0 /\ MaxGroup(disk0, root, pfx) <= 1)
           => FamilyDocs(disk, root, pfx) = FamilyDocs(disk0, root, pfx)

\* a family that began with a group of three has been through two apply
\* runs that resolved a conflict and a third that found none
C4_Witness ==
    /\ pc = "done" /\ ~dry_run /\ applied = 3 /\ log = <<>>
    /\ MaxGroup(first, DotAiSpecs, OSS_PREFIX) = 3
    /\ MaxGroup(disk, DotAiSpecs, OSS_PREFIX) = 1
    /\ out[Len(out)].kind = "none"

\* the leading date of a tail as the specification describes it: present when the
\* tail begins YYYY-MM-DD- and that is a day of the calendar
LeadingDate(t) ==
    IF DateFragment(t)
       /\ ValidDate(ToInt(SubSeq(t, 1, 4)), ToInt(SubSeq(t, 6, 7)), ToInt(SubSeq(t, 9, 10)))
    THEN [ok |-> TRUE,
          day |-> 10000 * ToInt(SubSeq(t, 1, 4)) + 100 * ToInt(SubSeq(t, 6, 7))
                  + ToInt(SubSeq(t, 9, 10))]
    ELSE [ok |-> FALSE, day |-> 0]

\* the groups of two made of a validly dated record and one without any
\* date fragment, among the conflicts resolved by this run
DatedAgainstUndated ==
    {i \in 1..Len(log) :
        /\ Len(log[i].dupes) = 2
        /\ \E a, b \in {log[i].dupes[1], log[i].dupes[2]} :
              /\ LeadingDate(log[i].specs[a].tail).ok
              /\ ~DateFragment(log[i].specs[b].tail)}

\* C5 as stated: in such a group the record without a date is the one
\* renumbered, the dated one keeps its token.
C5_DatedKept == \A i \in DatedAgainstUndated : ~DateFragment(log[i].old.tail)

\* C5 as amended: in such a group the dated record is the one renumbered and
\* the record without a date keeps its token, whichever is the more
\* recently modified.
C5_DatedRenumbered ==
    \A i \in DatedAgainstUndated :
        /\ LeadingDate(log[i].old.tail).ok
        /\ \A j \in {log[i].dupes[1], log[i].dupes[2]} \ {log[i].newest} :
              log[i].specs_after[j] = log[i].specs[j]

\* such a group has been resolved in which the undated record was modified
\* later than the dated one
C5_Witness ==
    \E i \in DatedAgainstUndated :
        \E j \in {log[i].dupes[1], log[i].dupes[2]} :
            /\ ~DateFragment(log[i].specs[j].tail)
            /\ log[i].specs[j].mtime > log[i].old.mtime

\* a is ahead of b in the order (has a valid leading date, the date, mtime)
Ahead(a, b) ==
    LET da == LeadingDate(a.tail)
        db == LeadingDate(b.tail)
    IN  \/ da.ok /\ ~db.ok
        \/ da.ok /\ db.ok /\ da.day > db.day
        \/ da.ok = db.ok /\ da.day = db.day /\ a.mtime > b.mtime

\* C6: the record renumbered in a conflicting group is a maximum of the
\* group in that order: no member of the group is ahead of it.
C6_NewestIsMaximum ==
    \A i \in 1..Len(log) :
        \A k \in 1..Len(log[i].dupes) : ~Ahead(log[i].specs[log[i].dupes[k]], log[i].old)

\* a group has been resolved whose chosen record carries the later date but
\* the earlier modification time, next to a record whose fragment is no date
C6_Witness ==
    \E i \in 1..Len(log) :
        /\ \E k \in 1..Len(log[i].dupes) :
              LET other == log[i].specs[log[i].dupes[k]] IN
              /\ LeadingDate(other.tail).ok
              /\ LeadingDate(other.tail).day < LeadingDate(log[i].old.tail).day
              /\ other.mtime > log[i].old.mtime
        /\ \E k \in 1..Len(log[i].dupes) :
              LET other == log[i].specs[log[i].dupes[k]] IN
              DateFragment(other.tail) /\ ~LeadingDate(other.tail).ok

\* the family pass of resolve_conflicts_for_prefix has visited every group
PassDone == pc = "loop" /\ todo = <<>>

\* the records of the family being resolved, and its groups at scan time
Family == {j \in 1..Len(scanned) : scanned[j].prefix = prefix}
Members(t) == {j \in Family : scanned[j].token = t}
FamilyGroups == {scanned[j].token : j \in Family}
Moved == {j \in Family : specs[j].token # scanned[j].token \/ specs[j].path # scanned[j].path}
Conflicting == {t \in FamilyGroups : Cardinality(Members(t)) >= 2}

\* C7: when a pass over a family is done, exactly one record of each group
\* of two or more has a changed token and a changed path; the other
\* members and the records of groups of one are as scanned.
C7_OnePerGroup ==
    PassDone =>
        \A t \in FamilyGroups :
            IF Cardinality(Members(t)) >= 2
            THEN \E j \in Members(t) :
                    /\ specs[j].token # scanned[j].token
                    /\ specs[j].path # scanned[j].path
                    /\ \A k \in Members(t) \ {j} : specs[k] = scanned[k]
            ELSE \A k \in Members(t) : specs[k] = scanned[k]

\* a pass is done over a family that had a group of three and a group of one
C7_Witness ==
    /\ PassDone
    /\ \E t \in FamilyGroups : Cardinality(Members(t)) = 3
    /\ \E t \in FamilyGroups : Cardinality(Members(t)) = 1
    /\ Cardinality(Moved) = 1

\* sum over the groups of the family of (size - 1)
RECURSIVE Surplus(_)
Surplus(toks) ==
    IF toks = {} THEN 0
    ELSE LET t == CHOOSE u \in toks : TRUE
         IN  (Cardinality(Members(t)) - 1) + Surplus(toks \ {t})

\* C8 as stated: when a pass over a family is done no two of its records
\* share a token, one record having been changed per duplicate beyond the
\* first of each group.
C8_NoSharedToken ==
    PassDone =>
        /\ \A i, j \in Family : i # j => specs[i].token # specs[j].token
        /\ Cardinality(Moved) = Surplus(FamilyGroups)

\* C8 as amended: when a pass over a family is done, two of its records
\* share a token only if both are unmoved members of a group that had three
\* or more members, and one record has been changed per conflicting group.
C8_OneLayerResolved ==
    PassDone =>
        /\ \A i, j \in Family :
              (i # j /\ specs[i].token = specs[j].token)
              => /\ specs[i] = scanned[i] /\ specs[j] = scanned[j]
                 /\ Cardinality(Members(specs[i].token)) >= 3
        /\ \A t \in Conflicting :
              Cardinality({j \in Family : specs[j].token = t}) = Cardinality(Members(t)) - 1
        /\ Cardinality(Moved) = Cardinality(Conflicting)

\* a pass is done that resolved a group of three, two of which still share
\* the token, next to a record with another token
C8_Witness ==
    /\ PassDone
    /\ \E t \in Conflicting :
          /\ Cardinality(Members(t)) = 3
          /\ Cardinality({j \in Family : specs[j].token = t}) = 2
    /\ Cardinality(FamilyGroups) >= 2
    /\ ~dry_run

\* the documents the scanner would find on a file system
Documents(fs) == UNION {Matched(fs, root) : root \in Roots}

\* where the file at p is after the conflict log[i] has been resolved
After(i, p) == IF p = log[i].old.path THEN log[i].new_path ELSE p

OldName(i) == base_name(log[i].old)
NewName(i) == PathName(log[i].new_path)
OldId(i) == spec_id(log[i].old)
NewId(i) == SpecId(log[i].old.prefix, log[i].new_token)

\* C9: after a conflict is resolved in apply mode, in every scanned text
\* file each occurrence of the renamed document's old file name reads the
\* new file name, and the occurrences of every other document's file name
\* are the ones that were there, that document still being on disk.
C9_ReferencesConsistent ==
    ~dry_run =>
        \A i \in 1..Len(log) :
            \A p \in TextFiles(log[i].before) :
                LET was == log[i].before[p].content
                    is == log[i].after[After(i, p)].content
                IN  /\ Occurrences(is, OldName(i)) = 0
                    /\ Occurrences(is, NewName(i)) =
                          Occurrences(was, NewName(i)) + Occurrences(was, OldName(i))
                    /\ \A q \in Documents(log[i].before) \ {log[i].old.path} :
                          /\ q \in DOMAIN log[i].after
                          /\ Occurrences(is, PathName(q)) = Occurrences(was, PathName(q))

\* C10: when a conflict is resolved in apply mode, the renamed document's
\* own text has no occurrence of the old identifier left; every other
\* scanned text file has lost exactly its occurrences of the old file name
\* and keeps each bare occurrence of the old identifier; a file that is not
\* scanned is as it was.
C10_ScopedIdentifierRewrite ==
    ~dry_run =>
        \A i \in 1..Len(log) :
            \A p \in DOMAIN log[i].before :
                LET was == log[i].before[p].content
                    is == log[i].after[After(i, p)].content
                IN  IF p = log[i].old.path
                    THEN /\ Occurrences(is, OldId(i)) = 0
                         /\ Occurrences(is, NewId(i)) >= Occurrences(was, OldId(i))
                    ELSE IF p \in TextFiles(log[i].before)
                    THEN /\ Occurrences(is, OldName(i)) = 0
                         /\ Occurrences(is, NewName(i)) =
                               Occurrences(was, NewName(i)) + Occurrences(was, OldName(i))
                         /\ Occurrences(is, OldId(i)) =
                               Occurrences(was, OldId(i)) - Occurrences(was, OldName(i))
                    ELSE is = was

\* a conflict has been resolved in apply mode where the renamed document
\* named its own identifier and another text file had both the old file
\* name and a bare occurrence of the old identifier
C10_Witness ==
    /\ ~dry_run
    /\ \E i \in 1..Len(log) :
          /\ log[i].id
          /\ \E p \in TextFiles(log[i].before) \ {log[i].old.path} :
                /\ Occurrences(log[i].before[p].content, OldName(i)) >= 1
                /\ Occurrences(log[i].before[p].content, OldId(i)) >
                      Occurrences(log[i].before[p].content, OldName(i))
                /\ Occurrences(log[i].after[p].content, OldId(i)) >= 1

\* the "Conflict ..." lines of an output: which record is moved, and where to
Moves(lines) == SelectSeq(lines, LAMBDA l : l.kind = "conflict")

\* C11: two preview runs on the same repository snapshot whose scans
\* enumerate the documents in opposite directions announce the same moves:
\* the same record of each conflicting group, to the same new name.
C11_ScanOrderIndependent ==
    (/\ pc = "done" /\ dry_run
     /\ prev.valid /\ prev.backward # backward /\ prev.disk0 = disk0)
    => Moves(out) = Moves(prev.out)

\* the number of decimal digits of n
DigitCount(n) == IF n < 10 THEN 1 ELSE IF n < 100 THEN 2 ELSE IF n < 1000 THEN 3 ELSE 4

\* the greatest element of a set of naturals, 0 for the empty set
MaxOf(S) == IF S = {} THEN 0 ELSE CHOOSE m \in S : \A v \in S : v <= m

\* the purely numeric tokens among the records of a family in a record list
NumericTokens(list, pfx) ==
    {list[j].token : j \in {k \in 1..Len(list) : list[k].prefix = pfx /\ IsDigit(list[k].token)}}

\* the purely numeric tokens a family had on disk when the run began
ScanNumeric(root, pfx) == {t \in FamilyTokens(disk0, root, pfx) : IsDigit(t)}

\* the minimum width of a family: its longest numeric token at scan time, or 3
MinWidth(root, pfx) ==
    LET numeric == ScanNumeric(root, pfx) IN
    IF numeric = {} THEN 3 ELSE MaxOf({Len(t) : t \in numeric})

\* C12: the token allocated for a conflict is the decimal numeral of one more
\* than the largest purely numeric token in the family's record list at that
\* moment (of 1 when there is none, tokens with a letter being ignored), with
\* as many digits as the larger of the family's minimum width and the digit
\* count of that number, the minimum width being the length of the longest
\* all-digit token at scan time or 3 when there was none.
C12_AllocatorValue ==
    \A i \in 1..Len(log) :
        LET n == MaxOf({ToInt(t) : t \in NumericTokens(log[i].specs, log[i].prefix)}) + 1 IN
        /\ IsDigit(log[i].new_token)
        /\ ToInt(log[i].new_token) = n
        /\ Len(log[i].new_token) = Max2(MinWidth(log[i].root, log[i].prefix), DigitCount(n))

\* a token has been allocated in a family holding a letter-suffixed token,
\* with more digits than the family's minimum width, and another one after it
\* in the same pass
C12_Witness ==
    \E i \in 1..Len(log) :
        /\ \E j \in 1..Len(log[i].specs) :
              log[i].specs[j].prefix = log[i].prefix /\ ~IsDigit(log[i].specs[j].token)
        /\ Len(log[i].new_token) > MinWidth(log[i].root, log[i].prefix)
        /\ \E k \in (i + 1)..Len(log) : log[k].prefix = log[i].prefix

\* no candidate registry root exists
NoRoots == present \cap Roots = {}

\* the run did nothing but report: no scan, no record, no file changed
NothingDone ==
    /\ scanned = <<>> /\ specs = <<>> /\ log = <<>>
    /\ disk = disk0
    /\ Len(out) = 1 /\ out[1].kind = "noroots"

\* C13 as stated: the status of a run that has ended is 1 exactly when no
\* candidate root exists, and then nothing was scanned and no file changed;
\* a run that found a root and completed has status 0.
C13_ExitStatus ==
    /\ exit_code # -1 => (exit_code = 1 <=> NoRoots)
    /\ (exit_code # -1 /\ NoRoots) => NothingDone
    /\ (pc = "done" /\ ~NoRoots) => exit_code = 0

\* C13 as amended: a run that returns from main has status 1 exactly when no
\* candidate root exists, and then nothing was scanned and no file changed;
\* with a root it returns 0 whatever the number of conflicts and the mode; a
\* run aborted by a failed rename also ends with status 1, a root existing.
C13_ExitStatusOfCompletedRuns ==
    /\ pc = "done" => /\ exit_code \in {0, 1}
                      /\ exit_code = 1 <=> NoRoots
                      /\ NoRoots => NothingDone
    /\ pc = "crashed" => exit_code = 1 /\ ~NoRoots
    /\ pc \notin {"done", "crashed"} => exit_code = -1

\* an apply run on a repository with text files but neither registry root has
\* ended with status 1
C13_Witness ==
    /\ pc = "done" /\ ~dry_run /\ exit_code = 1
    /\ NoRoots /\ disk # <<>> /\ TextFiles(disk) # {}

\* the rank of a character among the characters of tokens: digits come
\* before letters, each kind in its usual order
Rank(c) == CHOOSE r \in 1..15 : <<"0", "1", "2", "3", "4", "5", "6", "7", "8", "9",
                                  "a", "b", "c", "d", "e">>[r] = c

\* s comes before t in the dictionary order of the characters
LexBefore(s, t) ==
    \E n \in 0..Len(s) :
        /\ n <= Len(t)
        /\ \A m \in 1..n : s[m] = t[m]
        /\ \/ n = Len(s) /\ n < Len(t)
           \/ n < Len(s) /\ n < Len(t) /\ Rank(s[n + 1]) < Rank(t[n + 1])

\* the position of the conflict log[i] among those of its family pass
NthOfPass(i) ==
    Cardinality({j \in Resolved(log[i].root, log[i].prefix) : j <= i})

\* C14: the conflicts of one family pass are resolved in ascending
\* dictionary order of their tokens, and the k-th of them receives the
\* number M + k, M being the largest numeric token the family had at scan
\* time (0 without one); in preview runs as in apply runs.
C14_AscendingAndCumulative ==
    \A i \in 1..Len(log) :
        /\ \A j \in Resolved(log[i].root, log[i].prefix) :
              j < i => LexBefore(log[j].token, log[i].token)
        /\ ToInt(log[i].new_token) =
              MaxOf({ToInt(t) : t \in ScanNumeric(log[i].root, log[i].prefix)}) + NthOfPass(i)

\* a preview run has resolved two groups of one family, the second of which
\* is scanned before the first when the directory is enumerated backward
C14_Witness ==
    /\ dry_run /\ backward
    /\ \E i, j \in 1..Len(log) :
          /\ i < j /\ log[i].root = log[j].root /\ log[i].prefix = log[j].prefix
          /\ log[j].dupes[1] < log[i].dupes[1]
          /\ ToInt(log[j].new_token) = ToInt(log[i].new_token) + 1

\* both family passes over the current root have visited every group
RootDone == pc = "loop" /\ todo = <<>> /\ prefix = ENT_PREFIX

\* C15: the resolution of a conflict leaves the token and the path of every
\* record of the other family as they were, and moves no file but the
\* selected document of its own family; the number it allocates is one more than the largest numeric
\* token of its own family, whatever the other family holds; and when both
\* passes over a registry are done the records are the ones obtained by
\* resolving the base family then the extended one, which are also the ones
\* obtained by resolving the extended family first.
C15_FamiliesIndependent ==
    /\ \A i \in 1..Len(log) :
          /\ \A j \in 1..Len(log[i].specs) :
                log[i].specs[j].prefix # log[i].prefix
                => log[i].specs_after[j] = log[i].specs[j]
          /\ log[i].old.prefix = log[i].prefix
          /\ DOMAIN log[i].after \ {log[i].old.path, log[i].new_path}
                = DOMAIN log[i].before \ {log[i].old.path, log[i].new_path}
          /\ ToInt(log[i].new_token) =
                MaxOf({ToInt(t) : t \in NumericTokens(log[i].specs, log[i].prefix)}) + 1
    /\ RootDone =>
          LET base_first == resolve_conflicts_for_prefix(
                                resolve_conflicts_for_prefix(scanned, OSS_PREFIX), ENT_PREFIX)
              ext_first == resolve_conflicts_for_prefix(
                                resolve_conflicts_for_prefix(scanned, ENT_PREFIX), OSS_PREFIX)
          IN  specs = base_first /\ ext_first = base_first

\* both passes of an apply run over a registry are done, each family having
\* had a conflict, and the two families were given the same new token
C15_Witness ==
    /\ RootDone /\ ~dry_run
    /\ \E i, j \in 1..Len(log) :
          /\ log[i].root = log[j].root
          /\ log[i].prefix = OSS_PREFIX /\ log[j].prefix = ENT_PREFIX
          /\ log[i].new_token = log[j].new_token

\* the text of a renumbered document after the file-name references, then the
\* identifier, have been substituted in it
Substituted(text, old_name, new_name, old_id, new_id) ==
    Replace(Replace(text, old_name, new_name), old_id, new_id)

\* the identifier is looked for in the text the first substitution left
IdFound(text, old_name, new_name, old_id) ==
    Occurrences(Replace(text, old_name, new_name), old_id) >= 1

\* C16: an apply-mode resolution writes the file-name substitutions, then the
\* identifier substitution into the document at its old path, then renames
\* it, then updates the record. A completed resolution leaves the document
\* under the new path only, with both substitutions, and the record changed;
\* when the rename fails the run is aborted with the document still under
\* its old path holding both substitutions, every other text file holding
\* the file-name substitution, the record list and the pending groups
\* untouched, and the failed conflict the last one announced.
C16_StepOrder ==
    /\ ~dry_run =>
          \A i \in 1..Len(log) :
              LET was == log[i].before[log[i].old.path].content IN
              /\ log[i].old.path \notin DOMAIN log[i].after
              /\ log[i].after[log[i].new_path].content =
                    Substituted(was, OldName(i), NewName(i), OldId(i), NewId(i))
              /\ log[i].id <=> IdFound(was, OldName(i), NewName(i), OldId(i))
              /\ log[i].specs_after[log[i].newest].path = log[i].new_path
              /\ log[i].specs_after[log[i].newest].token = log[i].new_token
    /\ pc = "crashed" =>
          LET old_name == base_name(failed.old)
              new_name == PathName(failed.new_path)
              old_id == spec_id(failed.old)
              new_id == SpecId(failed.old.prefix, failed.new_token)
          IN  /\ failed.valid /\ ~dry_run
              /\ DOMAIN disk = DOMAIN failed.before
              /\ failed.new_path \notin DOMAIN disk
              /\ \A p \in DOMAIN disk :
                    disk[p].content =
                       IF p = failed.old.path
                       THEN Substituted(failed.before[p].content, old_name, new_name, old_id, new_id)
                       ELSE IF p \in TextFiles(failed.before)
                       THEN Replace(failed.before[p].content, old_name, new_name)
                       ELSE failed.before[p].content
              /\ specs = failed.specs
              /\ todo = failed.todo /\ Head(todo) = failed.token
              /\ Len(Moves(out)) = Len(log) + 1
              /\ out[Len(out)].kind \in {"refs", "id"}

\* a run has been aborted by a failed rename after it had written into the
\* document, a later conflicting group of the family still pending
C16_Witness ==
    /\ pc = "crashed" /\ failed.valid
    /\ disk[failed.old.path].content # failed.before[failed.old.path].content
    /\ Len(todo) >= 2 /\ Len(groups[todo[2]]) >= 2

\* C17: the path computed for a renumbered record is the path of no scanned
\* document; resolving a conflict in apply mode leaves every document on
\* disk, at its path or (the renumbered one) at the new path, in the same
\* directory and with the same prefix and tail, with its text unless it is a
\* scanned text file; and a completed apply run leaves as many documents as
\* it found.
C17_NoOverwrite ==
    ~dry_run =>
        /\ \A i \in 1..Len(log) :
              LET found == Documents(log[i].before)
                  left == Documents(log[i].after)
                  parsed == NameMatch(PathName(log[i].new_path))
              IN
              /\ log[i].new_path \notin found
              /\ log[i].new_path \notin DOMAIN log[i].before
              /\ PathDir(log[i].new_path) = PathDir(log[i].old.path)
              /\ parsed.prefix = log[i].old.prefix
              /\ parsed.tail = log[i].old.tail
              /\ left = {After(i, q) : q \in found}
              /\ Cardinality(left) = Cardinality(found)
              /\ \A q \in DOMAIN log[i].before :
                    /\ After(i, q) \in DOMAIN log[i].after
                    /\ q \notin TextFiles(log[i].before)
                       => log[i].after[After(i, q)] = log[i].before[q]
        /\ pc = "done" => Cardinality(Documents(disk)) = Cardinality(Documents(disk0))

\* an apply run has renumbered a document while another document of the
\* family, in the same directory, had the same tail under the next number
C17_Witness ==
    /\ ~dry_run /\ pc = "done"
    /\ \E i \in 1..Len(log) :
          \E q \in Documents(log[i].before) \ {log[i].old.path} :
              /\ PathDir(q) = PathDir(log[i].old.path)
              /\ NameMatch(PathName(q)).tail = log[i].old.tail
              /\ IsDigit(TokenOf(q))
              /\ ToInt(TokenOf(q)) = ToInt(log[i].old.token) + 1
              /\ q \in DOMAIN disk

\* C18: no record is renumbered twice in one run: two conflicts resolved in
\* the same registry never move the same record; the record a resolution
\* selects still has the token and the path the scan gave it, and the file
\* it reads (and renames) is on disk at that path, in preview runs too, so
\* that no run is aborted by a missing file.
C18_RenumberedAtMostOnce ==
    /\ \A i, j \in 1..Len(log) :
          (i < j /\ log[i].root = log[j].root) => log[i].newest # log[j].newest
    /\ \A i \in 1..Len(log) :
          /\ log[i].old.path \in DOMAIN log[i].before
          /\ log[i].old.path \in Matched(disk0, log[i].root)
          /\ log[i].old.token = TokenOf(log[i].old.path)
    /\ pc # "crashed"

\* a preview run has ended after resolving two conflicts of one family, the
\* record of the first having its new path in memory, none of the new paths
\* existing on disk
C18_Witness ==
    /\ dry_run /\ pc = "done"
    /\ \E i, j \in 1..Len(log) :
          /\ i < j /\ log[i].root = log[j].root /\ log[i].prefix = log[j].prefix
          /\ log[i].specs_after[log[i].newest].path # log[i].old.path
    /\ \A i \in 1..Len(log) : log[i].new_path \notin DOMAIN disk

\* the surplus of duplicates of a family on a file system: the sum over its
\* tokens of (group size - 1), that is documents minus distinct tokens
SurplusOn(fs, root, pfx) ==
    LET tok == FamilyTokenOf(fs, root, pfx) IN
    Cardinality(DOMAIN tok) - Cardinality({tok[p] : p \in DOMAIN tok})

\* the same sum over the record list of the family being resolved
SurplusNow == Cardinality(Family) - Cardinality({specs[j].token : j \in Family})

\* the groups of two or more a family has on a file system
ConflictsOn(fs, root, pfx) ==
    LET tok == FamilyTokenOf(fs, root, pfx) IN
    Cardinality({t \in {tok[p] : p \in DOMAIN tok} :
                    Cardinality({q \in DOMAIN tok : tok[q] = t}) >= 2})

\* C19: when a pass over a family is done, the count it returns is the
\* number of groups of two or more the family had at scan time; every token
\* it assigned is held by exactly one record of the family; the surplus of
\* duplicates among the records is lower by that count than at scan time,
\* and after an apply pass so is the surplus among the documents on disk.
\* The total a completed run reports is the number of such groups over all
\* registries and both families.
C19_SurplusDecreases ==
    /\ PassDone =>
          LET root == Head(specs_roots) IN
          /\ conflict_count = Cardinality(Conflicting)
          /\ conflict_count = ConflictsOn(disk0, root, prefix)
          /\ \A i \in Resolved(root, prefix) :
                Cardinality({j \in Family : specs[j].token = log[i].new_token}) = 1
          /\ SurplusNow = Surplus(FamilyGroups) - conflict_count
          /\ ~dry_run => /\ SurplusOn(disk, root, prefix)
                              = SurplusOn(disk0, root, prefix) - conflict_count
                         /\ \A i \in Resolved(root, prefix) :
                               GroupSize(disk, root, prefix, log[i].new_token) = 1
    /\ pc = "done" =>
          /\ total_conflicts = Len(log)
          /\ total_conflicts =
                (IF DotAiSpecs \in present
                 THEN ConflictsOn(disk0, DotAiSpecs, OSS_PREFIX)
                      + ConflictsOn(disk0, DotAiSpecs, ENT_PREFIX) ELSE 0)
                + (IF AiSpecs \in present
                   THEN ConflictsOn(disk0, AiSpecs, OSS_PREFIX)
                        + ConflictsOn(disk0, AiSpecs, ENT_PREFIX) ELSE 0)

\* an apply pass is done over a family that had two groups of two: it counted
\* two conflicts and the surplus on disk went from two to none
C19_Witness ==
    /\ PassDone /\ ~dry_run
    /\ conflict_count = 2
    /\ SurplusOn(disk0, Head(specs_roots), prefix) = 2
    /\ SurplusOn(disk, Head(specs_roots), prefix) = 0

\* C20: in every state of a run, preview or apply, the base name of each
\* record's path is its prefix, "-", its token, "-", its tail and ".md",
\* so that the name begins with the record's identifier.
C20_PathMatchesIdentifier ==
    \A j \in 1..Len(specs) :
        LET rec == specs[j] IN
        /\ PathName(rec.path) = rec.prefix \o <<"-">> \o rec.token \o <<"-">> \o rec.tail \o <<".md">>
        /\ IsPrefixOf(spec_id(rec) \o <<"-">>, base_name(rec))

\* a preview run holds a renumbered record of the extended family, and one
\* of the base family whose token has a letter
C20_Witness ==
    /\ dry_run /\ pc = "loop"
    /\ \E j \in 1..Len(specs) :
          /\ specs[j].prefix = ENT_PREFIX
          /\ specs[j].token # scanned[j].token
          /\ specs[j].path \notin DOMAIN disk
    /\ \E j \in 1..Len(specs) : specs[j].prefix = OSS_PREFIX /\ ~IsDigit(specs[j].token)

====
